---- MODULE Spec2Model ----
(***************************************************************************)
(* Model of the face recognition backend:                                  *)
(*   src/backend/face_recognition_utils.py  (FaceRecognitionEngine)        *)
(*   src/backend/main.py                    (FastAPI handlers)             *)
(*   src/backend/database.py                (MongoDB helpers)              *)
(*   src/recognize.py                       (classifier strategy, Flask)   *)
(*                                                                         *)
(* Conventions.                                                            *)
(*  - Floats are fixed-point integers in hundredths: 0.6 is 60, 0.9 is 90. *)
(*  - A Python value that may be None, or a dict key that may be absent,   *)
(*    is a sequence of length at most one: <<>> is None/absent, <<v>> is v.*)
(*  - An embedding is a tuple of integers; its length is its dimension.    *)
(*  - An image is a record: its size, whether the detector can process it, *)
(*    whether its bytes decode, its pixel content (a number that feeds the *)
(*    embedding network) and the raw candidate boxes the detector finds.   *)
(***************************************************************************)
EXTENDS Integers, Sequences, FiniteSets, TLC

VARIABLES detector, facenet_model, threshold,
          face_recognition_available, mongodb_available,
          faces_storage, logs_storage, db_faces, db_logs,
          svm_model, label_encoder,
          tasks,
          cap, is_webcam_running, open_captures, pending, widgets,
          dataset,
          call

vars == <<detector, facenet_model, threshold,
          face_recognition_available, mongodb_available,
          faces_storage, logs_storage, db_faces, db_logs,
          svm_model, label_encoder, tasks,
          cap, is_webcam_running, open_captures, pending, widgets,
          dataset, call>>

\* the globals of recognize.py
classifierVars == <<svm_model, label_encoder>>

\* the webcam fields of FaceRecognitionApp (gui.py), the capture devices open
\* in the process, the callbacks scheduled with root.after and the widgets
guiVars == <<cap, is_webcam_running, open_captures, pending, widgets>>

engineVars == <<detector, facenet_model, threshold>>
appVars == <<face_recognition_available, mongodb_available,
             faces_storage, logs_storage, db_faces, db_logs>>

(***************************************************************************)
(* Bounds of the model                                                     *)
(***************************************************************************)
\* largest number of candidate boxes the detector finds in one image
MaxFaces == 3
\* largest gallery handed to one recognize_faces call
MaxGallery == 2
\* width and height of every image, in pixels
ImgSize == 4

None == <<>>
Some(v) == <<v>>

Max2(a, b) == IF a >= b THEN a ELSE b
Min2(a, b) == IF a <= b THEN a ELSE b

\* sequences over S of length at most n
SeqsUpTo(S, n) == UNION {[1..k -> S] : k \in 0..n}

\* sequences with no repeated box (the detector never emits one box twice)
DistinctBoxes(s) == \A i, j \in 1..Len(s) : i # j => s[i].box # s[j].box

(***************************************************************************)
(* Inputs                                                                  *)
(***************************************************************************)
\* embeddings the network can produce (all of norm 5, dimension 2)
EmbeddingPool == << <<3, 4>>, <<4, -3>>, <<4, 3>>, <<-3, -4>> >>

\* np.random.rand(128): components in [0,1), so non-negative vectors
RandomPool == { <<3, 4>>, <<4, 3>> }

\* [0.1] * 512 of main.py: a constant vector of another dimension
DummyEmbedding == <<1, 1, 1>>

\* raw candidates as the detector reports them: box [x, y, w, h] and score.
\* 0.50 is below the confidence floor, 0.95 and 0.99 are above it; the last
\* box starts left of the image, as MTCNN boxes near the border do.
RawDetections ==
  { [box |-> <<0, 0, 2, 2>>,  confidence |-> 95],
    [box |-> <<0, 0, 2, 2>>,  confidence |-> 50],
    [box |-> <<2, 1, 2, 3>>,  confidence |-> 99],
    [box |-> <<-1, 0, 2, 2>>, confidence |-> 95] }

Images ==
  { i \in [size : {ImgSize}, malformed : BOOLEAN, pixels : {0},
           raw : { s \in SeqsUpTo(RawDetections, MaxFaces) : DistinctBoxes(s) }] :
      i.malformed => i.raw = <<>> }

\* threshold arguments of recognize_faces; None selects self.threshold (0.6)
Thresholds == { -100, 0, 96 }
ThresholdArgs == {None} \cup { Some(t) : t \in Thresholds }

\* Gallery entries without their position-dependent id.  Keys: 'id', '_id',
\* 'name', 'embedding'; each may be absent.
\*   - entries written by POST /faces (Face(...).dict()): 'id', 'name',
\*     'embedding'; the embedding is a real one or the dummy one
\*   - entries written by database.save_face_embedding: '_id', 'person_name'
\*     and 'embedding', so the key 'name' is absent
EntryBodies ==
  { [name |-> Some("Alice"),   embedding |-> Some(<<3, 4>>),        mongo |-> FALSE],
    [name |-> Some("Bob"),     embedding |-> Some(<<-3, -4>>),      mongo |-> FALSE],
    [name |-> Some("Unknown"), embedding |-> Some(<<4, 3>>),        mongo |-> FALSE],
    [name |-> Some("Alice"),   embedding |-> Some(DummyEmbedding),  mongo |-> FALSE],
    [name |-> None,            embedding |-> Some(<<3, 4>>),        mongo |-> TRUE] }

\* uuid4 / ObjectId strings: one per position, so ids are unique in a gallery
IdOf(i) == <<"id1", "id2", "id3", "id4", "id5", "id6">>[i]

MkEntry(body, i) ==
  [id        |-> IF body.mongo THEN None ELSE Some(IdOf(i)),
   _id       |-> IF body.mongo THEN Some(IdOf(i)) ELSE None,
   name      |-> body.name,
   embedding |-> body.embedding]

\* the entry of a person who may be enrolled twice with the same photo
TwiceEnrolled == [name |-> Some("Alice"), embedding |-> Some(<<3, 4>>), mongo |-> FALSE]

\* galleries: sequences of entries that differ in more than their id, or of
\* which two are the two enrollments of one photo
Galleries ==
  { [i \in 1..Len(b) |-> MkEntry(b[i], i)] :
      b \in { s \in SeqsUpTo(EntryBodies, MaxGallery) :
                /\ \A i, j \in 1..Len(s) : (i # j /\ s[i] = s[j]) => s[i] = TwiceEnrolled
                /\ Cardinality({ i \in 1..Len(s) : s[i] = TwiceEnrolled }) <= 2 } }

(***************************************************************************)
(* FaceRecognitionEngine (face_recognition_utils.py)                       *)
(***************************************************************************)
\* self.threshold = 0.6
DefaultThreshold == 60
\* detection['confidence'] > 0.9
ConfidenceFloor == 90
\* 'confidence': 0.95 of the Haar cascade path
HaarConfidence == 95

\* The engine states _initialize_models can leave behind: MTCNN() succeeded
\* and _load_facenet_model ended with the real model, the fallback model or
\* None; or MTCNN() raised and both fields are None.
EngineStates ==
  { [detector |-> "MTCNN", facenet_model |-> "facenet"],
    [detector |-> "MTCNN", facenet_model |-> "fallback"],
    [detector |-> "MTCNN", facenet_model |-> "None"],
    [detector |-> "None",  facenet_model |-> "None"] }

\* start:stop on an axis of length n, as Python normalises a slice
SliceStart(a, n) == IF a < 0 THEN Max2(a + n, 0) ELSE Min2(a, n)
SliceLen(a, b, n) == Max2(SliceStart(b, n) - SliceStart(a, n), 0)

\* one face of detect_faces ('landmarks' is carried nowhere and left out)
MkFace(x, y, w, h, c) == [bbox |-> <<x, y, x + w, y + h>>, confidence |-> c]

\* a loop over the detections without the confidence test
RECURSIVE MtcnnFaces_Unfiltered(_, _, _)
MtcnnFaces_Unfiltered(raw, i, faces) ==
  IF i > Len(raw) THEN faces
  ELSE LET d == raw[i] IN
       MtcnnFaces_Unfiltered(raw, i + 1,
         Append(faces, MkFace(d.box[1], d.box[2], d.box[3], d.box[4], d.confidence)))

\* the loop over self.detector.detect_faces(image)
RECURSIVE MtcnnFaces(_, _, _)
MtcnnFaces(raw, i, faces) ==
  IF i > Len(raw) THEN faces
  ELSE LET d == raw[i] IN
       IF d.confidence > ConfidenceFloor
       THEN MtcnnFaces(raw, i + 1,
              Append(faces, MkFace(d.box[1], d.box[2], d.box[3], d.box[4], d.confidence)))
       ELSE MtcnnFaces(raw, i + 1, faces)

RECURSIVE HaarFaces(_, _, _)
HaarFaces(raw, i, faces) ==
  IF i > Len(raw) THEN faces
  ELSE LET d == raw[i] IN
       HaarFaces(raw, i + 1,
         Append(faces, MkFace(d.box[1], d.box[2], d.box[3], d.box[4], HaarConfidence)))

\* a version that treats an image without faces as an error
DetectFaces_RaisesOnEmpty(det, image) ==
  LET faces == IF image.malformed THEN <<>>
               ELSE IF det # "None" THEN MtcnnFaces(image.raw, 1, <<>>)
               ELSE HaarFaces(image.raw, 1, <<>>)
  IN [raised |-> faces = <<>>, value |-> faces]

\* detect_faces: the detector (or cvtColor) raises on a malformed image and
\* the except clause returns [];  the function itself never raises
DetectFaces(det, image) ==
  IF image.malformed THEN [raised |-> FALSE, value |-> <<>>]
  ELSE IF det # "None"
       THEN [raised |-> FALSE, value |-> MtcnnFaces(image.raw, 1, <<>>)]
       ELSE [raised |-> FALSE, value |-> HaarFaces(image.raw, 1, <<>>)]

\* facenet_model.predict: a fixed function of the weights and the cropped pixels
Predict(model, image, x1, y1, x2, y2) ==
  LET n  == image.size
      sx == SliceStart(x1, n)
      sy == SliceStart(y1, n)
      c  == SliceLen(x1, x2, n)
      r  == SliceLen(y1, y2, n)
      w  == IF model = "fallback" THEN 1 ELSE 0
  IN EmbeddingPool[((image.pixels + sx + sy + 2 * c + 2 * r + w) % Len(EmbeddingPool)) + 1]

\* extract_face_embedding; rnd is the value np.random.rand would return
ExtractFaceEmbedding(model, image, bbox, rnd) ==
  IF image.malformed THEN None
  ELSE LET x1 == bbox[1]
           y1 == bbox[2]
           x2 == bbox[3]
           y2 == bbox[4]
           size == SliceLen(y1, y2, image.size) * SliceLen(x1, x2, image.size) * 3
       IN IF size = 0 THEN None
          ELSE IF model # "None" THEN Some(Predict(model, image, x1, y1, x2, y2))
          ELSE Some(rnd)

Dot(a, b) ==
  LET RECURSIVE D(_)
      D(i) == IF i = 0 THEN 0 ELSE a[i] * b[i] + D(i - 1)
  IN D(Len(a))

\* integer square root
ISqrt(n) == CHOOSE r \in 0..n : r * r <= n /\ (r + 1) * (r + 1) > n

\* sklearn cosine_similarity of two row vectors, in hundredths
CosineSimilarity(a, b) ==
  LET na == ISqrt(Dot(a, a))
      nb == ISqrt(Dot(b, b))
  IN IF na = 0 \/ nb = 0 THEN 0 ELSE (100 * Dot(a, b)) \div (na * nb)

\* a comparison of the leading components the two embeddings share
CalculateSimilarity_Truncating(embedding1, embedding2) ==
  IF embedding1 = None \/ embedding2 = None THEN 0
  ELSE LET n == Min2(Len(embedding1[1]), Len(embedding2[1]))
       IN CosineSimilarity(SubSeq(embedding1[1], 1, n), SubSeq(embedding2[1], 1, n))

\* calculate_similarity: embeddings are Optional; a shape mismatch makes
\* cosine_similarity raise, which the except clause turns into 0.0
CalculateSimilarity(embedding1, embedding2) ==
  IF embedding1 = None \/ embedding2 = None THEN 0
  ELSE IF Len(embedding1[1]) # Len(embedding2[1]) THEN 0
  ELSE CosineSimilarity(embedding1[1], embedding2[1])

\* 'embedding' in known_face and known_face['embedding']
HasEmbedding(known_face) ==
  known_face.embedding # None /\ known_face.embedding[1] # <<>>

\* a comparison that forgets the best similarity seen so far
IsBetterMatch_AnyAbove(similarity, best_similarity, thr) ==
  similarity > 0 /\ similarity > thr

\* a comparison that lets a later entry of equal similarity replace the best
IsBetterMatch_LastTie(similarity, best_similarity, thr) ==
  similarity >= best_similarity /\ similarity > 0 /\ similarity > thr

\* a comparison that also accepts a similarity equal to the threshold
IsBetterMatch_OrEqual(similarity, best_similarity, thr) ==
  similarity > best_similarity /\ similarity >= thr

\* similarity > best_similarity and similarity > threshold
IsBetterMatch(similarity, best_similarity, thr) ==
  similarity > best_similarity /\ similarity > thr

\* the loop over known_faces: index of best_match (0 is None) and best_similarity
RECURSIVE ScanKnownFaces(_, _, _, _, _, _)
ScanKnownFaces(face_embedding, known_faces, thr, i, best_match, best_similarity) ==
  IF i > Len(known_faces)
  THEN [best_match |-> best_match, best_similarity |-> best_similarity]
  ELSE LET known_face == known_faces[i]
           similarity == CalculateSimilarity(face_embedding, known_face.embedding)
       IN IF HasEmbedding(known_face)
             /\ IsBetterMatch(similarity, best_similarity, thr)
          THEN ScanKnownFaces(face_embedding, known_faces, thr, i + 1, i, similarity)
          ELSE ScanKnownFaces(face_embedding, known_faces, thr, i + 1,
                              best_match, best_similarity)

\* best_match.get('id', best_match.get('_id', 'unknown'))
FaceIdOf(known_face) ==
  IF known_face.id # None THEN known_face.id
  ELSE IF known_face._id # None THEN known_face._id
  ELSE Some("unknown")

\* one entry of recognized_faces for a matched face
MatchedResult(face, known_face, best_similarity) ==
  [name         |-> known_face.name[1],
   confidence   |-> best_similarity,
   bounding_box |-> face.bbox,
   face_id      |-> FaceIdOf(known_face)]

\* an entry for a face without a match that carries no name
UnknownResult_Unnamed(face) ==
  [name         |-> "",
   confidence   |-> face.confidence,
   bounding_box |-> face.bbox,
   face_id      |-> None]

\* an entry that reports best_similarity, which is 0.0 without a match
UnknownResult_BestSimilarity(face) ==
  [name         |-> "Unknown",
   confidence   |-> 0,
   bounding_box |-> face.bbox,
   face_id      |-> None]

\* one entry of recognized_faces for a face without a match
UnknownResult(face) ==
  [name         |-> "Unknown",
   confidence   |-> face.confidence,
   bounding_box |-> face.bbox,
   face_id      |-> None]

\* an insertion at the front of the list
AppendResult_AtFront(recognized_faces, entry) == <<entry>> \o recognized_faces

\* recognized_faces.append(entry)
AppendResult(recognized_faces, entry) == Append(recognized_faces, entry)

\* the loop over detected_faces; raised is TRUE when best_match['name'] is a
\* KeyError, which leaves the loop
RECURSIVE RecognizeLoop(_, _, _, _, _, _, _, _)
RecognizeLoop(model, image, known_faces, thr, rnd, detected_faces, i, recognized_faces) ==
  IF i > Len(detected_faces) THEN [raised |-> FALSE, value |-> recognized_faces]
  ELSE
    LET face == detected_faces[i]
        face_embedding == ExtractFaceEmbedding(model, image, face.bbox, rnd[i])
        scan == ScanKnownFaces(face_embedding, known_faces, thr, 1, 0, 0)
    IN IF face_embedding = None
       THEN RecognizeLoop(model, image, known_faces, thr, rnd, detected_faces, i + 1,
                          recognized_faces)
       ELSE IF scan.best_match # 0
       THEN IF known_faces[scan.best_match].name = None
            THEN [raised |-> TRUE, value |-> recognized_faces]
            ELSE RecognizeLoop(model, image, known_faces, thr, rnd, detected_faces, i + 1,
                   AppendResult(recognized_faces,
                                MatchedResult(face, known_faces[scan.best_match],
                                              scan.best_similarity)))
       ELSE RecognizeLoop(model, image, known_faces, thr, rnd, detected_faces, i + 1,
                          AppendResult(recognized_faces, UnknownResult(face)))

\* a version that ignores the threshold argument
EffectiveThreshold_AlwaysDefault(self_threshold, thrArg) == self_threshold

\* if threshold is None: threshold = self.threshold
EffectiveThreshold(self_threshold, thrArg) ==
  IF thrArg = None THEN self_threshold ELSE thrArg[1]

\* recognize_faces(image, known_faces, threshold=None): the outer except
\* clause logs the error and returns []; caught records that it ran
RecognizeFaces(det, model, self_threshold, image, known_faces, thrArg, rnd) ==
  LET thr == EffectiveThreshold(self_threshold, thrArg)
      detected_faces == DetectFaces(det, image).value
      loop == RecognizeLoop(model, image, known_faces, thr, rnd, detected_faces, 1, <<>>)
  IN IF loop.raised THEN [caught |-> TRUE, value |-> <<>>]
     ELSE [caught |-> FALSE, value |-> loop.value]

\* a version that keeps the threshold argument in self.threshold
ThresholdAfterRecognize_Stored(self_threshold, thrArg) ==
  IF thrArg = None THEN self_threshold ELSE thrArg[1]

\* self.threshold after recognize_faces: the method reads it into the local
\* threshold and never assigns it
ThresholdAfterRecognize(self_threshold, thrArg) == self_threshold

\* known_faces after recognize_faces: best_match aliases an entry and the
\* entry is only read; the list is only iterated
KnownFacesAfter(known_faces) == known_faces

\* add_face(image, name): raises ValueError when no face is detected or the
\* first face yields no embedding, otherwise returns the face data
EngineAddFace(det, model, image, name, rnd) ==
  LET detected_faces == DetectFaces(det, image).value
      face == detected_faces[1]
      embedding == ExtractFaceEmbedding(model, image, face.bbox, rnd)
  IN IF detected_faces = <<>>
     THEN [raised |-> TRUE, error |-> "No faces detected in the image", value |-> None]
     ELSE IF embedding = None
     THEN [raised |-> TRUE, error |-> "Could not extract face embedding", value |-> None]
     ELSE [raised |-> FALSE, error |-> "",
           value |-> Some([name |-> name, embedding |-> embedding[1],
                           bbox |-> face.bbox, confidence |-> face.confidence])]

(***************************************************************************)
(* State and direct calls of the engine                                    *)
(***************************************************************************)
Idle == [op |-> "idle"]

\* FaceRecognitionApp.__init__: no capture, the webcam off, the button and
\* labels as created
WidgetsAtStart ==
  [webcam_btn |-> "Start Webcam",
   result_label |-> <<"Upload an image or start webcam to begin recognition">>,
   img_label |-> "none"]

GuiAtStart ==
  /\ cap = "None"
  /\ is_webcam_running = FALSE
  /\ open_captures = 0
  /\ pending = 0
  /\ widgets = WidgetsAtStart

\* init_sample_data(): three sample faces with the dummy embedding
SampleFaces ==
  << [id |-> Some("s1"), _id |-> None, name |-> Some("Alice Johnson"),
      embedding |-> Some(DummyEmbedding)],
     [id |-> Some("s2"), _id |-> None, name |-> Some("Bob Williams"),
      embedding |-> Some(DummyEmbedding)],
     [id |-> Some("s3"), _id |-> None, name |-> Some("Charlie Davis"),
      embedding |-> Some(DummyEmbedding)] >>

SampleLogs ==
  << [method |-> "upload", recognized_person |-> Some("Alice Johnson"), confidence |-> Some(98)],
     [method |-> "camera", recognized_person |-> Some("Bob Williams"), confidence |-> Some(91)],
     [method |-> "camera", recognized_person |-> Some("Unknown"), confidence |-> Some(65)] >>

\* values successive np.random.rand calls return during one frame: the
\* generator's stream alternates between the two vectors of RandomPool and
\* starts with either; with a model loaded no value is drawn
RandomChoices(model, n) ==
  IF model = "None"
  THEN { [i \in 1..n |-> IF (i + first) % 2 = 0 THEN <<3, 4>> ELSE <<4, 3>>] :
           first \in {0, 1} }
  ELSE { [i \in 1..n |-> <<3, 4>>] }

\* bounding boxes of direct extract_face_embedding calls
XCoords == { -2, -1, 0, 2, 5 }
YCoords == { -1, 0, 3 }
BBoxes == { <<x1, y1, x2, y2>> : x1 \in XCoords, y1 \in YCoords,
                                  x2 \in XCoords, y2 \in YCoords }

\* a client calls engine.detect_faces(image)
CallDetectFaces ==
  /\ call = Idle
  /\ \E image \in Images :
       LET r == DetectFaces(detector, image)
       IN call' = [op |-> "detect_faces", image |-> image,
                   raised |-> r.raised, result |-> r.value]
  /\ UNCHANGED <<engineVars, appVars, classifierVars, guiVars, dataset, tasks>>

\* images of direct extract_face_embedding calls (the detector is not involved)
ExtractImages == { i \in Images : i.raw = <<>> }

ExtractRecord(model, image, bbox, rnd, previous) ==
  [op |-> "extract_face_embedding", image |-> image, bbox |-> bbox,
   previous |-> previous,
   result |-> ExtractFaceEmbedding(model, image, bbox, rnd)]

\* a client calls engine.extract_face_embedding(image, bbox), or repeats the
\* call it has just made with the same arguments
CallExtractFaceEmbedding ==
  /\ \E rnd \in (IF facenet_model = "None" THEN RandomPool ELSE { <<3, 4>> }) :
       \/ /\ call = Idle
          /\ \E image \in ExtractImages, bbox \in BBoxes :
               call' = ExtractRecord(facenet_model, image, bbox, rnd, None)
       \/ /\ call # Idle
          /\ call.op = "extract_face_embedding"
          /\ call.previous = None
          /\ call' = ExtractRecord(facenet_model, call.image, call.bbox, rnd,
                                   Some(call.result))
  /\ UNCHANGED <<engineVars, appVars, classifierVars, guiVars, dataset, tasks>>

\* a client calls engine.recognize_faces(image, known_faces, threshold)
CallRecognizeFaces ==
  /\ call = Idle
  /\ \E image \in Images, known_faces \in Galleries, thrArg \in ThresholdArgs :
     \E rnd \in RandomChoices(facenet_model, Len(DetectFaces(detector, image).value)) :
       LET r == RecognizeFaces(detector, facenet_model, threshold,
                               image, known_faces, thrArg, rnd)
           detected_faces == DetectFaces(detector, image).value
       IN /\ call' = [op |-> "recognize_faces", image |-> image,
                      known_faces |-> known_faces,
                      known_faces_after |-> KnownFacesAfter(known_faces),
                      threshold |-> thrArg, rnd |-> rnd,
                      \* the locals detected_faces and embedding of the call
                      detected_faces |-> detected_faces,
                      embeddings |-> [i \in 1..Len(detected_faces) |->
                                        ExtractFaceEmbedding(facenet_model, image,
                                                             detected_faces[i].bbox, rnd[i])],
                      caught |-> r.caught, result |-> r.value]
          /\ threshold' = ThresholdAfterRecognize(threshold, thrArg)
  /\ UNCHANGED <<detector, facenet_model, appVars, classifierVars, guiVars, dataset, tasks>>

\* a client calls engine.add_face(image, name)
CallAddFace ==
  /\ call = Idle
  /\ \E image \in Images, name \in {"Alice"}, rnd \in RandomChoices(facenet_model, 1) :
       LET r == EngineAddFace(detector, facenet_model, image, name, rnd[1])
       IN call' = [op |-> "add_face", image |-> image, name |-> name,
                   raised |-> r.raised, error |-> r.error, result |-> r.value]
  /\ UNCHANGED <<engineVars, appVars, classifierVars, guiVars, dataset, tasks>>

\* the caller has consumed the outcome of its call
Return ==
  /\ call # Idle
  /\ call' = Idle
  /\ UNCHANGED <<engineVars, appVars, classifierVars, guiVars, dataset, tasks>>

\* the engine after FaceRecognitionEngine(); the application as main.py
\* leaves it after import
InitEngine ==
  /\ \E e \in EngineStates : detector = e.detector /\ facenet_model = e.facenet_model
  /\ threshold = DefaultThreshold
  /\ face_recognition_available = TRUE
  /\ mongodb_available = FALSE
  /\ faces_storage = SampleFaces
  /\ logs_storage = SampleLogs
  /\ db_faces = <<>>
  /\ db_logs = <<>>
  /\ svm_model = "None" /\ label_encoder = "None"
  /\ tasks = <<>>
  /\ GuiAtStart
  /\ dataset = {}
  /\ call = Idle

NextEngine ==
  \/ CallDetectFaces
  \/ CallExtractFaceEmbedding
  \/ CallRecognizeFaces
  \/ CallAddFace
  \/ Return

SpecEngine == InitEngine /\ [][NextEngine]_vars

(***************************************************************************)
(* FastAPI application (main.py)                                           *)
(***************************************************************************)
\* largest number of POST requests served in one run
MaxRequests == 2

\* uploads: bytes that cv2.imdecode rejects, and photos with no face, one
\* face and two faces
Uploads ==
  { [decodable |-> FALSE, image |-> [size |-> ImgSize, malformed |-> FALSE,
                                     pixels |-> 0, raw |-> <<>>]],
    [decodable |-> TRUE,  image |-> [size |-> ImgSize, malformed |-> FALSE,
                                     pixels |-> 0, raw |-> <<>>]],
    [decodable |-> TRUE,  image |-> [size |-> ImgSize, malformed |-> FALSE, pixels |-> 0,
                                     raw |-> << [box |-> <<0, 0, 2, 2>>, confidence |-> 95] >>]],
    [decodable |-> TRUE,  image |-> [size |-> ImgSize, malformed |-> FALSE, pixels |-> 0,
                                     raw |-> << [box |-> <<0, 0, 2, 2>>, confidence |-> 95],
                                                [box |-> <<2, 1, 2, 3>>, confidence |-> 99] >>]] }

\* threshold_param values of POST /recognize; Form(0.6) when the field is absent
ThresholdParams == { 60, 96 }

\* preprocess_image: raises ValueError when the bytes do not decode
PreprocessImage(upload) ==
  IF upload.decodable THEN [raised |-> FALSE, value |-> Some(upload.image)]
  ELSE [raised |-> TRUE, value |-> None]

\* confidence of a simulated recognition: 0.8 + random() * 0.2
SimulatedMatchConfidence == 90
\* confidence of a simulated 'Unknown': 0.6 + random() * 0.2
SimulatedUnknownConfidence == 70

\* the outcomes of one iteration of simulate_recognition's loop
SimulatedFaces(available_names, i) ==
  { [name |-> n, confidence |-> SimulatedMatchConfidence,
     bounding_box |-> <<100 + i * 50, 100 + i * 50, 200 + i * 50, 200 + i * 50>>] :
      n \in available_names }
  \cup { [name |-> "Unknown", confidence |-> SimulatedUnknownConfidence,
          bounding_box |-> <<100 + i * 50, 100 + i * 50, 200 + i * 50, 200 + i * 50>>] }

\* simulate_recognition(): the results random.choice and random.random can produce
SimulateRecognition(storage) ==
  LET available_names == { storage[k].name[1] : k \in 1..Len(storage) }
  IN IF available_names = {} THEN { <<>> }
     ELSE { <<>> }
          \cup { <<f>> : f \in SimulatedFaces(available_names, 0) }
          \cup { <<f, g>> : f \in SimulatedFaces(available_names, 0),
                            g \in SimulatedFaces(available_names, 1) }

\* get_faces_from_db(): the documents of db.faces with '_id' as a string and
\* 'id' overwritten by it; faces_storage when the query fails
GetFacesFromDb(mongo_ok, collection, storage) ==
  IF mongo_ok
  THEN [k \in 1..Len(collection) |-> [collection[k] EXCEPT !.id = collection[k]._id]]
  ELSE storage

\* a log entry made from the last recognized face
LogEntry_Last(recognized_faces) ==
  [method |-> "upload",
   recognized_person |-> IF recognized_faces # <<>>
                         THEN Some(recognized_faces[Len(recognized_faces)].name) ELSE None,
   confidence |-> IF recognized_faces # <<>>
                  THEN Some(recognized_faces[Len(recognized_faces)].confidence) ELSE None]

\* RecognitionLog(method, recognized_person, confidence) of POST /recognize;
\* the uploads of the model are not named "live", so the method is "upload"
LogEntry(recognized_faces) ==
  [method |-> "upload",
   recognized_person |-> IF recognized_faces # <<>> THEN Some(recognized_faces[1].name) ELSE None,
   confidence |-> IF recognized_faces # <<>> THEN Some(recognized_faces[1].confidence) ELSE None]

\* JSONResponse(content=...) renders its content with json.dumps, which raises
\* TypeError on a datetime (get_faces converts created_at for that reason);
\* the handler's "except Exception" turns the error into HTTPException(500)
ResponseStatus(content_has_datetime) == IF content_has_datetime THEN 500 ELSE 200

\* faces_storage[:] = [face for face in faces_storage if ...]
DeleteInMemory(storage, face_id) ==
  SelectSeq(storage, LAMBDA f : f.id # Some(face_id) /\ f._id # Some(face_id))

\* ids of the sample faces
SampleIds == { SampleFaces[k].id : k \in 1..Len(SampleFaces) }

\* number of records of the POST handlers that are in the stores
Stored ==
  Cardinality({ k \in 1..Len(faces_storage) : faces_storage[k].id \notin SampleIds })
  + Len(db_faces) + Len(logs_storage) + Len(db_logs) - Len(SampleLogs)

\* POST /recognize.  mongo_read and mongo_write say whether the MongoDB
\* query and insert of this request succeed.
PostRecognize ==
  /\ call = Idle
  /\ Stored < MaxRequests
  /\ \E upload \in Uploads, threshold_param \in ThresholdParams,
        mongo_read \in BOOLEAN, mongo_write \in BOOLEAN :
       LET pre == PreprocessImage(upload)
           real == face_recognition_available /\ ~pre.raised
           known_faces == IF ~mongodb_available THEN faces_storage
                          ELSE GetFacesFromDb(mongo_read, db_faces, faces_storage)
       IN \E rnd \in (IF real
                      THEN RandomChoices(facenet_model,
                                         Len(DetectFaces(detector, upload.image).value))
                      ELSE { <<>> }),
             simulated \in (IF real THEN { <<>> } ELSE SimulateRecognition(faces_storage)) :
            LET recognized_faces ==
                  IF real
                  THEN RecognizeFaces(detector, facenet_model, threshold, upload.image,
                                      known_faces, Some(threshold_param), rnd).value
                  ELSE simulated
                log_entry == LogEntry(recognized_faces)
            IN /\ (mongodb_available /\ ~mongo_read) => real
               /\ ~mongodb_available => (mongo_read /\ mongo_write)
               /\ IF mongodb_available /\ mongo_write
                  THEN db_logs' = Append(db_logs, log_entry) /\ UNCHANGED logs_storage
                  ELSE logs_storage' = Append(logs_storage, log_entry) /\ UNCHANGED db_logs
               /\ call' = [op |-> "POST /recognize", upload |-> upload,
                           threshold_param |-> threshold_param,
                           simulated |-> ~real,
                           known_faces |-> IF real THEN Some(known_faces) ELSE None,
                           status_code |-> ResponseStatus(FALSE),
                           faces_detected |-> Len(recognized_faces),
                           recognized_faces |-> recognized_faces]
  /\ UNCHANGED <<engineVars, face_recognition_available, mongodb_available,
                 faces_storage, db_faces,
                 classifierVars, guiVars, dataset, tasks>>

\* the id a new Face gets (uuid4) and the ObjectId MongoDB gives a document:
\* an id that no stored face carries
NewId ==
  LET used == { faces_storage[k].id : k \in 1..Len(faces_storage) }
                \cup { db_faces[k].id : k \in 1..Len(db_faces) }
  IN IdOf(CHOOSE i \in 1..(MaxRequests + 1) :
            /\ Some(IdOf(i)) \notin used
            /\ \A j \in 1..(i - 1) : Some(IdOf(j)) \in used)

\* names of POST /faces requests
EnrollNames == { "Alice" }

\* POST /faces.  mongo_write says whether the MongoDB insert of this request
\* succeeds; disk_ok whether save_face_image can write the file.
PostFaces ==
  /\ call = Idle
  /\ Stored < MaxRequests
  /\ \E upload \in Uploads, name \in EnrollNames, mongo_write \in BOOLEAN, disk_ok \in BOOLEAN :
       LET pre == PreprocessImage(upload)
       IN \E rnd \in RandomChoices(facenet_model, 1) :
            LET added == IF face_recognition_available /\ ~pre.raised
                         THEN EngineAddFace(detector, facenet_model, upload.image, name, rnd[1])
                         ELSE [raised |-> TRUE, error |-> "", value |-> None]
                real == ~added.raised /\ disk_ok
                face_data == [id |-> Some(NewId), _id |-> None, name |-> Some(name),
                              embedding |-> Some(IF real THEN added.value[1].embedding
                                                 ELSE DummyEmbedding)]
            IN /\ ~mongodb_available => mongo_write
               /\ added.raised => disk_ok
               /\ IF mongodb_available /\ mongo_write
                  THEN /\ db_faces' = Append(db_faces, [face_data EXCEPT !._id = Some(NewId)])
                       /\ UNCHANGED faces_storage
                  ELSE /\ faces_storage' = Append(faces_storage, face_data)
                       /\ UNCHANGED db_faces
               /\ call' = [op |-> "POST /faces", upload |-> upload, name |-> name,
                           faces_in_image |-> IF pre.raised THEN 0
                                              ELSE Len(DetectFaces(detector, upload.image).value),
                           simulated |-> ~real,
                           faces_storage_before |-> faces_storage,
                           db_faces_before |-> db_faces,
                           \* "face": face_data.dict() holds created_at, a datetime
                           status_code |-> ResponseStatus(TRUE),
                           face |-> face_data]
  /\ UNCHANGED <<engineVars, face_recognition_available, mongodb_available,
                 logs_storage, db_logs,
                 classifierVars, guiVars, dataset, tasks>>

\* the list get_faces hands to JSONResponse from MongoDB: '_id' as a string
\* and 'id' overwritten by it
FacesFromCollection(collection) ==
  [k \in 1..Len(collection) |-> [collection[k] EXCEPT !.id = collection[k]._id]]

\* get_faces: the documents of db.faces when the query succeeds and
\* JSONResponse accepts them; every document written by add_face holds
\* created_at, a datetime, so JSONResponse raises inside the inner try and
\* the handler goes on with faces_storage, as it does when the query fails
\* or MongoDB is not available
GetFacesContent(mongo_ok, collection, storage) ==
  IF mongo_ok /\ ResponseStatus(collection # <<>>) = 200
  THEN FacesFromCollection(collection)
  ELSE storage

\* GET /faces.  mongo_read says whether the MongoDB query of this request
\* succeeds.
GetFaces ==
  /\ call = Idle
  /\ \E mongo_read \in BOOLEAN :
       /\ ~mongodb_available => mongo_read
       /\ call' = [op |-> "GET /faces",
                   mongo_read |-> mongo_read,
                   \* created_at of the in-memory copies is converted first
                   status_code |-> ResponseStatus(FALSE),
                   body |-> GetFacesContent(mongodb_available /\ mongo_read,
                                            db_faces, faces_storage)]
  /\ UNCHANGED <<engineVars, appVars, classifierVars, guiVars, dataset, tasks>>

\* ids of DELETE /faces/{face_id} requests: a sample face, the first face
\* enrolled, and a well-formed ObjectId that no face carries; object_id says
\* whether ObjectId(face_id) accepts the string
AppDeleteRequests ==
  { [face_id |-> "s1", object_id |-> FALSE],
    [face_id |-> IdOf(1), object_id |-> FALSE],
    [face_id |-> IdOf(1), object_id |-> TRUE],
    [face_id |-> "0a1b", object_id |-> TRUE] }

\* delete_one: the collection without the first document the filter matches
DeleteOne(collection, hits) ==
  IF hits = {} THEN collection
  ELSE LET first == CHOOSE k \in hits : \A j \in hits : k <= j
       IN [k \in 1..(Len(collection) - 1) |->
             IF k < first THEN collection[k] ELSE collection[k + 1]]

\* the status FastAPI answers with when the handler raises HTTPException(code)
\* inside its try block: "except Exception" catches it and raises
\* HTTPException(500) in its place
RaisedInsideTry(code) == 500

\* delete_face as a whole.  mongo_ok says whether the delete_one calls of
\* this request succeed.
DeleteFaceOutcome(request, mongo_ok) ==
  LET by__id == { k \in 1..Len(db_faces) : db_faces[k]._id = Some(request.face_id) }
      by_id  == { k \in 1..Len(db_faces) : db_faces[k].id = Some(request.face_id) }
      hits   == IF by__id # {} THEN by__id ELSE by_id
      in_db  == mongodb_available /\ request.object_id /\ mongo_ok /\ hits # {}
      kept   == DeleteInMemory(faces_storage, request.face_id)
  IN IF in_db
     THEN [status_code |-> 200, faces_storage |-> faces_storage,
           db_faces |-> DeleteOne(db_faces, hits)]
     ELSE [status_code |-> IF Len(kept) < Len(faces_storage) THEN 200
                           ELSE RaisedInsideTry(404),
           faces_storage |-> kept, db_faces |-> db_faces]

\* DELETE /faces/{face_id}
DeleteFace ==
  /\ call = Idle
  /\ \E request \in AppDeleteRequests, mongo_ok \in BOOLEAN :
       LET out == DeleteFaceOutcome(request, mongo_ok)
       IN /\ (~mongodb_available \/ ~request.object_id) => mongo_ok
          /\ faces_storage' = out.faces_storage
          /\ db_faces' = out.db_faces
          /\ call' = [op |-> "DELETE /faces", face_id |-> request.face_id,
                      faces_storage_before |-> faces_storage,
                      db_faces_before |-> db_faces,
                      status_code |-> out.status_code]
  /\ UNCHANGED <<engineVars, face_recognition_available, mongodb_available,
                 logs_storage, db_logs, classifierVars, guiVars, dataset, tasks>>

\* health_check: ping_ok is whether db.admin.command('ping') succeeds
HealthCheck(mongo_ok, ping_ok, available) ==
  [status           |-> "healthy",
   database         |-> IF mongo_ok
                        THEN (IF ping_ok THEN "connected" ELSE "disconnected")
                        ELSE "not_available",
   storage          |-> IF mongo_ok /\ ping_ok THEN "mongodb" ELSE "in-memory",
   models           |-> IF available THEN "real_ml_models" ELSE "simulated",
   face_recognition |-> IF available THEN "available" ELSE "unavailable"]

\* GET /health
GetHealth ==
  /\ call = Idle
  /\ \E ping_ok \in BOOLEAN :
       call' = [op |-> "GET /health",
                body |-> HealthCheck(mongodb_available, ping_ok,
                                     face_recognition_available)]
  /\ UNCHANGED <<engineVars, appVars, classifierVars, guiVars, dataset, tasks>>

\* the application after import: the utilities imported or not (then there
\* is no engine), motor imported or not, the sample data loaded
Init ==
  /\ \/ /\ face_recognition_available = TRUE
        /\ \E e \in EngineStates : detector = e.detector /\ facenet_model = e.facenet_model
     \/ /\ face_recognition_available = FALSE
        /\ detector = "None" /\ facenet_model = "None"
  /\ threshold = DefaultThreshold
  /\ mongodb_available \in BOOLEAN
  /\ faces_storage = SampleFaces
  /\ logs_storage = SampleLogs
  /\ db_faces = <<>>
  /\ db_logs = <<>>
  /\ svm_model = "None" /\ label_encoder = "None"
  /\ tasks = <<>>
  /\ GuiAtStart
  /\ dataset = {}
  /\ call = Idle

Next ==
  \/ PostRecognize
  \/ PostFaces
  \/ GetFaces
  \/ DeleteFace
  \/ GetHealth
  \/ Return

Spec == Init /\ [][Next]_vars

(***************************************************************************)
(* The FastAPI app as coroutines on one event loop                         *)
(*                                                                         *)
(* Every handler of main.py is an "async def": it runs on uvicorn's event  *)
(* loop and gives way to other handlers only where it awaits.  A task is a *)
(* handler in flight, pc names the await it is suspended at, and one step  *)
(* runs a task from that await to its next await or to its return.         *)
(***************************************************************************)
\* largest number of handlers in flight at once
MaxTasks == 2

\* the outcome "task" of a step that ends its handler
Free == [kind |-> "free"]

\* uploads of the concurrent requests: photos with no face and with one face
AsyncUploads == { u \in Uploads : u.decodable /\ Len(u.image.raw) <= 1 }

\* DELETE /faces/{face_id} requests: the uuid string of a sample face, which
\* bson.ObjectId rejects, and a well-formed ObjectId that names no face
DeleteRequests ==
  { [face_id |-> "s1", object_id |-> FALSE],
    [face_id |-> "0a1b", object_id |-> TRUE] }

InFlight(kinds) == { t \in 1..Len(tasks) : tasks[t].kind \in kinds }

\* faces enrolled so far, stored or still awaiting their insert
Enrolled ==
  Cardinality({ k \in 1..Len(faces_storage) : faces_storage[k].id \notin SampleIds })
  + Len(db_faces)
  + Cardinality({ t \in InFlight({"faces"}) : tasks[t].pc = "insert" })

\* POST requests admitted so far
Admitted ==
  Enrolled + Cardinality({ t \in InFlight({"faces"}) : tasks[t].pc = "read" })
  + (Len(logs_storage) - Len(SampleLogs)) + Len(db_logs)
  + Cardinality(InFlight({"recognize"}))

\* the call face_engine.recognize_faces(...) of the handler is a plain call
\* of a plain method: the coroutine awaits nothing from its start to its return
AwaitsInsideRecognizeFaces_WorkerThread == TRUE
AwaitsInsideRecognizeFaces == FALSE

\* the outcome of one step of a task: the task afterwards, the collections
\* afterwards and the recognize_faces call the step completed, if any
StepOutcome(task, storage, collection, logs, dblogs, completed) ==
  [task |-> task, faces_storage |-> storage, db_faces |-> collection,
   logs_storage |-> logs, db_logs |-> dblogs, completed |-> completed]

\* recognize_face from the return of recognize_faces to the handler's next
\* await or return.  at_start and at_return are the gallery list as it was
\* when the call started and when it returned.
AfterRecognizeFaces(task, by_reference, at_start, at_return, rnd) ==
  LET recognized_faces ==
        RecognizeFaces(detector, facenet_model, threshold, task.upload.image,
                       at_return, Some(DefaultThreshold), rnd).value
      log_entry == LogEntry(recognized_faces)
      completed == Some([op |-> "recognize_faces in POST /recognize",
                         by_reference |-> by_reference,
                         gallery_at_start |-> at_start,
                         gallery_at_return |-> at_return,
                         faces_detected |-> Len(recognized_faces)])
  IN IF mongodb_available
     THEN StepOutcome([kind |-> "recognize", pc |-> "log", log_entry |-> log_entry],
                      faces_storage, db_faces, logs_storage, db_logs, completed)
     ELSE StepOutcome(Free, faces_storage, db_faces,
                      Append(logs_storage, log_entry), db_logs, completed)

\* recognize_face at the start of its recognize_faces call
EnterRecognizeFaces(task, by_reference, gallery, rnd) ==
  IF AwaitsInsideRecognizeFaces
  THEN StepOutcome([kind |-> "recognize", pc |-> "recognizing", upload |-> task.upload,
                    by_reference |-> by_reference, gallery_at_start |-> gallery],
                   faces_storage, db_faces, logs_storage, db_logs, None)
  ELSE AfterRecognizeFaces(task, by_reference, gallery, gallery, rnd)

\* one step of recognize_face; mongo_ok says whether the MongoDB operation
\* the task was awaiting succeeded
RecognizeStep(task, mongo_ok, rnd) ==
  IF task.pc = "read"
  THEN IF mongodb_available
       THEN StepOutcome([task EXCEPT !.pc = "find"],
                        faces_storage, db_faces, logs_storage, db_logs, None)
       ELSE EnterRecognizeFaces(task, TRUE, faces_storage, rnd)
  ELSE IF task.pc = "find"
  THEN EnterRecognizeFaces(task, ~mongo_ok,
                           GetFacesFromDb(mongo_ok, db_faces, faces_storage), rnd)
  ELSE IF task.pc = "recognizing"
  THEN AfterRecognizeFaces(task, task.by_reference, task.gallery_at_start,
                           IF task.by_reference THEN faces_storage
                           ELSE task.gallery_at_start, rnd)
  ELSE \* "log": await logs_collection.insert_one(...)
       IF mongo_ok
       THEN StepOutcome(Free, faces_storage, db_faces,
                        logs_storage, Append(db_logs, task.log_entry), None)
       ELSE StepOutcome(Free, faces_storage, db_faces,
                        Append(logs_storage, task.log_entry), db_logs, None)

\* the id of the Face a POST /faces handler creates (uuid4)
AsyncNewId == IdOf(Enrolled + 1)

\* one step of add_face
FacesStep(task, mongo_ok, disk_ok, rnd) ==
  IF task.pc = "read"
  THEN LET pre == PreprocessImage(task.upload)
           added == IF face_recognition_available /\ ~pre.raised
                    THEN EngineAddFace(detector, facenet_model, task.upload.image,
                                       task.name, rnd[1])
                    ELSE [raised |-> TRUE, error |-> "", value |-> None]
           real == ~added.raised /\ disk_ok
           face_data == [id |-> Some(AsyncNewId), _id |-> None, name |-> Some(task.name),
                         embedding |-> Some(IF real THEN added.value[1].embedding
                                            ELSE DummyEmbedding)]
       IN IF mongodb_available
          THEN StepOutcome([kind |-> "faces", pc |-> "insert", face_data |-> face_data],
                           faces_storage, db_faces, logs_storage, db_logs, None)
          ELSE StepOutcome(Free, Append(faces_storage, face_data), db_faces,
                           logs_storage, db_logs, None)
  ELSE \* "insert": await faces_collection.insert_one(...)
       IF mongo_ok
       THEN StepOutcome(Free, faces_storage,
                        Append(db_faces, [task.face_data EXCEPT !._id = task.face_data.id]),
                        logs_storage, db_logs, None)
       ELSE StepOutcome(Free, Append(faces_storage, task.face_data), db_faces,
                        logs_storage, db_logs, None)

\* the rest of delete_face once MongoDB is out of the way
DeleteFromStorage(face_id) ==
  StepOutcome(Free, DeleteInMemory(faces_storage, face_id), db_faces,
              logs_storage, db_logs, None)

\* delete_face from its start to its first await: ObjectId(face_id) raises
\* on a string that is no ObjectId, before anything is awaited
DeleteStart(request) ==
  IF mongodb_available /\ request.object_id
  THEN StepOutcome([kind |-> "delete", pc |-> "delete_by__id", face_id |-> request.face_id],
                   faces_storage, db_faces, logs_storage, db_logs, None)
  ELSE DeleteFromStorage(request.face_id)

\* one step of delete_face after an awaited delete_one
DeleteStep(task, mongo_ok) ==
  LET key_is_id == task.pc = "delete_by_id"
      Hit(f) == IF key_is_id THEN f.id = Some(task.face_id) ELSE f._id = Some(task.face_id)
      hits == { k \in 1..Len(db_faces) : Hit(db_faces[k]) }
      first == CHOOSE k \in hits : \A j \in hits : k <= j
      remaining == [k \in 1..(Len(db_faces) - 1) |->
                      IF k < first THEN db_faces[k] ELSE db_faces[k + 1]]
  IN IF ~mongo_ok THEN DeleteFromStorage(task.face_id)
     ELSE IF hits # {}
     THEN StepOutcome(Free, faces_storage, remaining, logs_storage, db_logs, None)
     ELSE IF key_is_id THEN DeleteFromStorage(task.face_id)
     ELSE StepOutcome([task EXCEPT !.pc = "delete_by_id"],
                      faces_storage, db_faces, logs_storage, db_logs, None)

\* tasks without its t-th element
Without(t) == [k \in 1..(Len(tasks) - 1) |-> IF k < t THEN tasks[k] ELSE tasks[k + 1]]

\* the state after a step of task t; t = Len(tasks) + 1 is a handler that starts
Apply(t, outcome) ==
  /\ tasks' = IF outcome.task = Free
              THEN (IF t > Len(tasks) THEN tasks ELSE Without(t))
              ELSE (IF t > Len(tasks) THEN Append(tasks, outcome.task)
                    ELSE [tasks EXCEPT ![t] = outcome.task])
  /\ faces_storage' = outcome.faces_storage
  /\ db_faces' = outcome.db_faces
  /\ logs_storage' = outcome.logs_storage
  /\ db_logs' = outcome.db_logs
  /\ call' = IF outcome.completed = None THEN call ELSE outcome.completed[1]
  /\ UNCHANGED <<engineVars, face_recognition_available, mongodb_available,
                 classifierVars, guiVars, dataset>>

\* a POST /recognize request arrives: the handler starts and awaits file.read()
StartRecognize ==
  /\ Admitted < MaxRequests
  /\ Len(tasks) < MaxTasks
  /\ \E upload \in AsyncUploads :
       Apply(Len(tasks) + 1,
             StepOutcome([kind |-> "recognize", pc |-> "read", upload |-> upload],
                         faces_storage, db_faces, logs_storage, db_logs, None))

\* a POST /faces request arrives: the handler starts and awaits file.read()
StartFaces ==
  /\ Admitted < MaxRequests
  /\ Len(tasks) < MaxTasks
  /\ \E upload \in AsyncUploads, name \in EnrollNames :
       Apply(Len(tasks) + 1,
             StepOutcome([kind |-> "faces", pc |-> "read", upload |-> upload, name |-> name],
                         faces_storage, db_faces, logs_storage, db_logs, None))

\* a DELETE /faces/{face_id} request arrives
StartDelete ==
  /\ Len(tasks) < MaxTasks
  /\ \E request \in DeleteRequests : Apply(Len(tasks) + 1, DeleteStart(request))

\* the event loop resumes a suspended POST /recognize handler
ResumeRecognize ==
  \E t \in InFlight({"recognize"}), mongo_ok \in BOOLEAN :
  \E rnd \in RandomChoices(facenet_model, 1) :
    Apply(t, RecognizeStep(tasks[t], mongo_ok, rnd))

\* the event loop resumes a suspended POST /faces handler
ResumeFaces ==
  \E t \in InFlight({"faces"}), mongo_ok \in BOOLEAN, disk_ok \in BOOLEAN :
  \E rnd \in RandomChoices(facenet_model, 1) :
    Apply(t, FacesStep(tasks[t], mongo_ok, disk_ok, rnd))

\* the event loop resumes a suspended DELETE /faces handler
ResumeDelete ==
  \E t \in InFlight({"delete"}), mongo_ok \in BOOLEAN :
    Apply(t, DeleteStep(tasks[t], mongo_ok))

\* the app after import, the engine constructed with an embedding network,
\* no request in flight
InitAsync ==
  /\ face_recognition_available = TRUE
  /\ \E e \in EngineStates :
       e.facenet_model # "None" /\ detector = e.detector /\ facenet_model = e.facenet_model
  /\ threshold = DefaultThreshold
  /\ mongodb_available \in BOOLEAN
  /\ faces_storage = SampleFaces
  /\ logs_storage = SampleLogs
  /\ db_faces = <<>>
  /\ db_logs = <<>>
  /\ svm_model = "None" /\ label_encoder = "None"
  /\ tasks = <<>>
  /\ GuiAtStart
  /\ dataset = {}
  /\ call = Idle

NextAsync ==
  \/ StartRecognize
  \/ StartFaces
  \/ StartDelete
  \/ ResumeRecognize
  \/ ResumeFaces
  \/ ResumeDelete

SpecAsync == InitAsync /\ [][NextAsync]_vars

(***************************************************************************)
(* Classifier strategy (recognize.py)                                      *)
(***************************************************************************)
\* largest number of faces utils.detect_faces finds in one image
MaxClassifierFaces == 2

\* the classes of the label encoder, in the order of predict_proba's columns
Labels == <<"Alice", "Bob", "Carol">>

\* rows svm_model.predict_proba returns: a clear winner, a winner exactly at
\* 0.5, a winner just below 0.5, and a tie between the first two classes
Probabilities == { <<20, 70, 10>>, <<50, 30, 20>>, <<30, 21, 49>>, <<40, 40, 20>> }

\* rectangles (x, y, w, h) of utils.detect_faces
Rects == { <<0, 0, 2, 2>>, <<1, 1, 3, 3>> }

\* an image of recognize.py: the rectangles utils.detect_faces returns for
\* it, each with the row predict_proba returns for the embedding of its crop
ClassifierImages ==
  { f \in SeqsUpTo([rect : Rects, prediction : Probabilities], MaxClassifierFaces) :
      \A i, j \in 1..Len(f) : i # j => f[i].rect # f[j].rect }

\* threshold=0.5 of recognize_face and the literal 0.5 of the endpoint
ClassifierThreshold == 50

\* threshold arguments of recognize_face
ClassifierThresholds == { ClassifierThreshold, 60 }

\* the module-level loading: each pickle is there or not
ClassifierStates == [svm_model : {"loaded", "None"}, label_encoder : {"loaded", "None"}]

\* np.argmax: the first index of the largest value
ArgMax(prediction) ==
  CHOOSE i \in 1..Len(prediction) :
    /\ \A j \in 1..Len(prediction) : prediction[j] <= prediction[i]
    /\ \A j \in 1..(i - 1) : prediction[j] < prediction[i]

\* max(faces, key=lambda rect: rect[2] * rect[3]): the first face of largest area
LargestFace(faces) ==
  LET area(i) == faces[i].rect[3] * faces[i].rect[4]
      best == CHOOSE i \in 1..Len(faces) :
                /\ \A j \in 1..Len(faces) : area(j) <= area(i)
                /\ \A j \in 1..(i - 1) : area(j) < area(i)
  IN faces[best]

\* f"{name} ({best_class_prob:.2f})": a string is the tuple of its parts
FormatName(name, best_class_prob) == <<name, best_class_prob>>

\* best_class_prob < threshold
BelowThreshold(best_class_prob, thr) == best_class_prob < thr

\* recognize_face(image, threshold): returns a string
RecognizeFace(svm, encoder, image, thr) ==
  IF svm = "None" \/ encoder = "None" THEN <<"Unknown (Models not loaded)">>
  ELSE IF Len(image) = 0 THEN <<"No face detected">>
  ELSE LET prediction == LargestFace(image).prediction
           best_class_idx == ArgMax(prediction)
           best_class_prob == prediction[best_class_idx]
       IN IF BelowThreshold(best_class_prob, thr) THEN <<"Unknown">>
          ELSE FormatName(Labels[best_class_idx], best_class_prob)

\* one iteration of the endpoint's loop; raised is the UnboundLocalError of
\* reading best_class_prob, which only the classifier branch assigns
EndpointEntry(svm, encoder, face) ==
  LET prediction == face.prediction
      best_class_idx == ArgMax(prediction)
      best_class_prob == prediction[best_class_idx]
      models == svm # "None" /\ encoder # "None"
      name == IF models
              THEN (IF BelowThreshold(best_class_prob, ClassifierThreshold)
                    THEN <<"Unknown">>
                    ELSE FormatName(Labels[best_class_idx], best_class_prob))
              ELSE <<"Unknown (Models not loaded)">>
  IN IF svm # "None" /\ ~models
     THEN [raised |-> TRUE, value |-> None]
     ELSE [raised |-> FALSE,
           value |-> Some([name |-> name,
                           confidence |-> IF svm # "None" THEN best_class_prob ELSE 0,
                           bounding_box |-> face.rect])]

\* recognize_endpoint(): the status code and the JSON body; an exception that
\* leaves the view function is answered by Flask with status 500
RecognizeEndpoint(svm, encoder, has_file, decodable, image) ==
  IF ~has_file THEN [status_code |-> 400, error |-> Some("No image uploaded"),
                     faces_detected |-> 0, recognized_faces |-> <<>>]
  ELSE IF ~decodable THEN [status_code |-> 400, error |-> Some("Invalid image format"),
                           faces_detected |-> 0, recognized_faces |-> <<>>]
  ELSE LET entries == [i \in 1..Len(image) |-> EndpointEntry(svm, encoder, image[i])]
       IN IF \E i \in 1..Len(image) : entries[i].raised
          THEN [status_code |-> 500, error |-> Some("Internal Server Error"),
                faces_detected |-> 0, recognized_faces |-> <<>>]
          ELSE [status_code |-> 200, error |-> None,
                faces_detected |-> Len(image),
                recognized_faces |-> [i \in 1..Len(image) |-> entries[i].value[1]]]

\* a caller (gui.py, webcam_demo.py) calls recognize_face(image, threshold)
CallRecognizeFace ==
  /\ call = Idle
  /\ \E image \in ClassifierImages, thr \in ClassifierThresholds :
       call' = [op |-> "recognize_face", image |-> image, threshold |-> thr,
                result |-> RecognizeFace(svm_model, label_encoder, image, thr)]
  /\ UNCHANGED <<engineVars, appVars, classifierVars, guiVars, dataset, tasks>>

\* POST /recognize of the Flask app
PostRecognizeFlask ==
  /\ call = Idle
  /\ \E has_file \in BOOLEAN, decodable \in BOOLEAN, image \in ClassifierImages :
       /\ (~has_file \/ ~decodable) => image = <<>>
       /\ ~has_file => decodable
       /\ call' = [op |-> "flask POST /recognize", has_file |-> has_file,
                   decodable |-> decodable, image |-> image,
                   response |-> RecognizeEndpoint(svm_model, label_encoder,
                                                  has_file, decodable, image)]
  /\ UNCHANGED <<engineVars, appVars, classifierVars, guiVars, dataset, tasks>>

\* recognize.py after import: each of the two pickles was loaded or not
InitClassifier ==
  /\ \E c \in ClassifierStates : svm_model = c.svm_model /\ label_encoder = c.label_encoder
  /\ detector = "None" /\ facenet_model = "None"
  /\ threshold = DefaultThreshold
  /\ face_recognition_available = FALSE
  /\ mongodb_available = FALSE
  /\ faces_storage = <<>>
  /\ logs_storage = <<>>
  /\ db_faces = <<>>
  /\ db_logs = <<>>
  /\ tasks = <<>>
  /\ GuiAtStart
  /\ dataset = {}
  /\ call = Idle

NextClassifier ==
  \/ CallRecognizeFace
  \/ PostRecognizeFlask
  \/ Return

SpecClassifier == InitClassifier /\ [][NextClassifier]_vars

(***************************************************************************)
(* Desktop application (gui.py): the webcam loop                           *)
(***************************************************************************)
\* largest number of update_webcam_frame callbacks scheduled at one time
MaxPending == 3

\* the webcam state of the application as one record
GuiState ==
  [cap |-> cap, is_webcam_running |-> is_webcam_running,
   open_captures |-> open_captures, pending |-> pending, widgets |-> widgets]

\* stop_webcam: nothing when the webcam is not running; otherwise the flag is
\* cleared, the capture released and forgotten, the button and label reset
StopWebcam(st) ==
  IF st.is_webcam_running
  THEN [st EXCEPT !.is_webcam_running = FALSE,
                  !.cap = "None",
                  !.open_captures = IF st.cap = "opened" THEN @ - 1 ELSE @,
                  !.widgets.webcam_btn = "Start Webcam",
                  !.widgets.result_label = <<"Webcam stopped">>]
  ELSE st

\* update_webcam_frame: returns at once when the webcam is not running;
\* stops the webcam when the read fails (ret) or anything raises while the
\* frame is shown (shown); otherwise shows the frame and schedules itself
\* with root.after(33, ...)
UpdateWebcamFrame(st, ret, shown) ==
  IF ~st.is_webcam_running THEN st
  ELSE IF st.cap # "opened" \/ ~ret \/ ~shown THEN StopWebcam(st)
  ELSE [st EXCEPT !.widgets.img_label = "frame", !.pending = @ + 1]

\* start_webcam, the command of the webcam button: stops a running webcam;
\* otherwise creates cv2.VideoCapture(0), returns when it is not opened
\* (self.cap keeps the unopened object), else sets the flag and runs the
\* first update_webcam_frame.  A capture that self.cap still held is
\* dropped without release().
StartWebcam(st, open_ok, ret, shown) ==
  IF st.is_webcam_running THEN StopWebcam(st)
  ELSE IF ~open_ok THEN [st EXCEPT !.cap = "failed"]
  ELSE UpdateWebcamFrame([st EXCEPT !.cap = "opened",
                                    !.open_captures = @ + 1,
                                    !.is_webcam_running = TRUE,
                                    !.widgets.webcam_btn = "Stop Webcam",
                                    !.widgets.result_label = <<"Webcam active">>],
                         ret, shown)

\* outcomes of upload_and_recognize after its stop_webcam: the file dialog
\* is cancelled, cv2.imread returns None, the image is shown with a result,
\* or something raises
UploadOutcomes ==
  { [kind |-> "cancelled",  text |-> <<>>],
    [kind |-> "unreadable", text |-> <<"Error: Could not read image">>],
    [kind |-> "recognized", text |-> <<"Recognized: ", "Unknown">>],
    [kind |-> "recognized", text |-> <<"Recognized: ", "Alice">>],
    [kind |-> "raised",     text |-> <<"Error: ", "cvtColor">>] }

UploadAndRecognize(st, outcome) ==
  LET stopped == StopWebcam(st)
  IN IF outcome.kind = "cancelled" THEN stopped
     ELSE IF outcome.kind = "recognized"
     THEN [stopped EXCEPT !.widgets.img_label = "upload",
                          !.widgets.result_label = outcome.text]
     ELSE [stopped EXCEPT !.widgets.result_label = outcome.text]

\* the application takes the state st
Becomes(st) ==
  /\ cap' = st.cap
  /\ is_webcam_running' = st.is_webcam_running
  /\ open_captures' = st.open_captures
  /\ pending' = st.pending
  /\ widgets' = st.widgets

\* the user presses the webcam button
PressWebcamButton ==
  /\ is_webcam_running \/ pending < MaxPending
  /\ \E open_ok \in BOOLEAN, ret \in BOOLEAN, shown \in BOOLEAN :
       /\ is_webcam_running => (open_ok /\ ret /\ shown)
       /\ ~open_ok => (ret /\ shown)
       /\ ~ret => shown
       /\ Becomes(StartWebcam(GuiState, open_ok, ret, shown))
       /\ call' = [op |-> "start_webcam", was_running |-> is_webcam_running,
                   open_ok |-> open_ok, ret |-> ret, shown |-> shown]
  /\ UNCHANGED <<engineVars, appVars, classifierVars, dataset, tasks>>

\* a callback scheduled with root.after fires
TimerFires ==
  /\ pending > 0
  /\ \E ret \in BOOLEAN, shown \in BOOLEAN :
       /\ ~is_webcam_running => (ret /\ shown)
       /\ ~ret => shown
       /\ Becomes(UpdateWebcamFrame([GuiState EXCEPT !.pending = @ - 1], ret, shown))
       /\ call' = [op |-> "update_webcam_frame", was_running |-> is_webcam_running,
                   ret |-> ret, shown |-> shown]
  /\ UNCHANGED <<engineVars, appVars, classifierVars, dataset, tasks>>

\* the user presses "Upload Image"
PressUpload ==
  /\ \E outcome \in UploadOutcomes :
       /\ Becomes(UploadAndRecognize(GuiState, outcome))
       /\ call' = [op |-> "upload_and_recognize", was_running |-> is_webcam_running,
                   outcome |-> outcome.kind]
  /\ UNCHANGED <<engineVars, appVars, classifierVars, dataset, tasks>>

\* the user presses "Collect Faces": collect_faces stops the webcam before it
\* asks for the name
PressCollectFaces ==
  /\ Becomes(StopWebcam(GuiState))
  /\ call' = [op |-> "collect_faces", was_running |-> is_webcam_running]
  /\ UNCHANGED <<engineVars, appVars, classifierVars, dataset, tasks>>

InitGui ==
  /\ detector = "None" /\ facenet_model = "None"
  /\ threshold = DefaultThreshold
  /\ face_recognition_available = FALSE
  /\ mongodb_available = FALSE
  /\ faces_storage = <<>>
  /\ logs_storage = <<>>
  /\ db_faces = <<>>
  /\ db_logs = <<>>
  /\ svm_model = "None" /\ label_encoder = "None"
  /\ tasks = <<>>
  /\ GuiAtStart
  /\ dataset = {}
  /\ call = Idle

NextGui ==
  \/ PressWebcamButton
  \/ TimerFires
  \/ PressUpload
  \/ PressCollectFaces

SpecGui == InitGui /\ [][NextGui]_vars

(***************************************************************************)
(* Collection and training scripts (collect_faces.py, train_model.py)      *)
(***************************************************************************)
\* longest person name entered
MaxNameLen == 2
\* largest number of images one run of collect_faces.py saves (50 in the code)
MaxImages == 2
\* largest number of persons collected
MaxPersons == 2

\* characters of person names
NameChars == { "a", "b", "_" }

\* the strings input("Enter person name: ") returns
PersonNames == SeqsUpTo(NameChars, MaxNameLen)

Digit(d) == <<"0", "1", "2", "3", "4", "5", "6", "7", "8", "9">>[d + 1]

\* str(count) of the f-string
RECURSIVE DecimalString(_)
DecimalString(n) ==
  IF n < 10 THEN <<Digit(n)>>
  ELSE DecimalString(n \div 10) \o <<Digit(n % 10)>>

\* f"{person_name}_{count}.jpg", the name of the file inside dataset/
FileName(person_name, count) ==
  person_name \o <<"_">> \o DecimalString(count) \o <<".", "j", "p", "g">>

\* file.endswith(".jpg")
EndsWithJpg(file) ==
  Len(file) >= 4 /\ SubSeq(file, Len(file) - 3, Len(file)) = <<".", "j", "p", "g">>

\* file.split("_")[0]: the characters before the first "_", the whole string
\* when it has none
SplitFirst(file) ==
  LET seps == { i \in 1..Len(file) : file[i] = "_" }
  IN IF seps = {} THEN file
     ELSE SubSeq(file, 1, (CHOOSE i \in seps : \A j \in seps : i <= j) - 1)

\* one run of collect_faces.py: person_name is entered and n face crops are
\* saved before the loop ends; cv2.imwrite replaces a file of the same name.
\* face_of is the person whose face the file shows.
CollectFaces ==
  /\ \E person_name \in PersonNames, n \in 0..MaxImages :
       LET saved == { [file |-> FileName(person_name, count), face_of |-> person_name] :
                        count \in 0..(n - 1) }
           written == { r.file : r \in saved }
       IN /\ Cardinality({ r.face_of : r \in dataset \cup saved }) <= MaxPersons
          /\ dataset' = { r \in dataset : r.file \notin written } \cup saved
          /\ call' = [op |-> "collect_faces", person_name |-> person_name, count |-> n]
  /\ UNCHANGED <<engineVars, appVars, classifierVars, guiVars, tasks>>

\* train_model.py up to the label array y: exit(1) when dataset/ holds no
\* .jpg file, else one label per file, taken from the file name
TrainModel ==
  /\ LET jpgs == { r \in dataset : EndsWithJpg(r.file) }
     IN call' = [op |-> "train_model",
                 exit |-> IF jpgs = {} THEN 1 ELSE 0,
                 y |-> { [file |-> r.file, face_of |-> r.face_of,
                          name |-> SplitFirst(r.file)] : r \in jpgs }]
  /\ UNCHANGED <<engineVars, appVars, classifierVars, guiVars, tasks, dataset>>

InitDataset ==
  /\ detector = "None" /\ facenet_model = "None"
  /\ threshold = DefaultThreshold
  /\ face_recognition_available = FALSE
  /\ mongodb_available = FALSE
  /\ faces_storage = <<>>
  /\ logs_storage = <<>>
  /\ db_faces = <<>>
  /\ db_logs = <<>>
  /\ svm_model = "None" /\ label_encoder = "None"
  /\ tasks = <<>>
  /\ GuiAtStart
  /\ dataset = {}
  /\ call = Idle

NextDataset ==
  \/ CollectFaces
  \/ TrainModel

SpecDataset == InitDataset /\ [][NextDataset]_vars

(***************************************************************************)
(* Properties of recognize_faces                                           *)
(***************************************************************************)
IsRecognize == call # Idle /\ call.op = "recognize_faces"

\* the threshold in force during the recorded call
CallThreshold == IF call.threshold = None THEN threshold ELSE call.threshold[1]

\* the detections of the recorded call, in the order the detector emitted them
CallDetected == call.detected_faces

\* the embedding of detection i in the recorded call
CallEmbedding(i) == call.embeddings[i]

\* gallery positions whose entry has an embedding
Usable == { k \in 1..Len(call.known_faces) : HasEmbedding(call.known_faces[k]) }

\* gallery positions whose embedding has the dimension of detection i's, so
\* that a cosine similarity between the two exists
Comparable(i) ==
  { k \in Usable : Len(call.known_faces[k].embedding[1]) = Len(CallEmbedding(i)[1]) }

\* the cosine similarity of detection i and gallery entry k
CallSimilarity(i, k) ==
  CosineSimilarity(CallEmbedding(i)[1], call.known_faces[k].embedding[1])

\* the best similarity of detection i over the gallery is above x
BestAbove(i, x) == \E k \in Comparable(i) : CallSimilarity(i, k) > x

\* k has the highest similarity to detection i over the gallery
IsBest(i, k) ==
  k \in Comparable(i) /\ \A j \in Comparable(i) : CallSimilarity(i, j) <= CallSimilarity(i, k)

\* the detection a result entry was built from (boxes are distinct in a frame)
DetectionOf(r) == CHOOSE i \in 1..Len(CallDetected) : CallDetected[i].bbox = r.bounding_box

\* the result entries built from detection i
ResultsOf(i) ==
  { n \in 1..Len(call.result) : call.result[n].bounding_box = CallDetected[i].bbox }

\* C1: a face is reported with a gallery identity only if its best cosine
\* similarity over the gallery is strictly greater than the threshold; a face
\* whose best similarity equals or is below the threshold is reported as
\* 'Unknown' (in every frame whose results are returned).
C1_StrictThreshold ==
  IsRecognize =>
    /\ \A n \in 1..Len(call.result) :
         LET r == call.result[n] IN
         (r.face_id # None \/ r.name # "Unknown")
            => BestAbove(DetectionOf(r), CallThreshold)
    /\ ~call.caught =>
         \A i \in 1..Len(CallDetected) :
           (CallEmbedding(i) # None /\ ~BestAbove(i, CallThreshold))
             => /\ ResultsOf(i) # {}
                /\ \A n \in ResultsOf(i) :
                     call.result[n].name = "Unknown" /\ call.result[n].face_id = None

\* a face whose best similarity equals the threshold was reported as 'Unknown'
C1_Witness ==
  /\ IsRecognize
  /\ \E i \in 1..Len(CallDetected) :
       /\ CallEmbedding(i) # None
       /\ \E k \in Comparable(i) : IsBest(i, k) /\ CallSimilarity(i, k) = CallThreshold
                                    /\ CallThreshold > 0
       /\ \E n \in ResultsOf(i) : call.result[n].name = "Unknown"
\* C2: for every threshold a caller can supply, zero and negative ones
\* included, a face whose highest similarity over the gallery is greater than
\* the threshold is reported with that entry's identity and with that
\* similarity as its confidence.
C2_MatchAboveAnyThreshold ==
  (IsRecognize /\ ~call.caught) =>
    \A i \in 1..Len(CallDetected) :
      (CallEmbedding(i) # None /\ BestAbove(i, CallThreshold))
        => \E n \in ResultsOf(i), k \in Comparable(i) :
             /\ IsBest(i, k)
             /\ call.known_faces[k].name = Some(call.result[n].name)
             /\ call.result[n].confidence = CallSimilarity(i, k)

\* C3 as claimed: every entry named 'Unknown' carries the detector's
\* confidence for its face and the face_id None.
C3_UnknownAsClaimed ==
  IsRecognize =>
    \A n \in 1..Len(call.result) :
      LET r == call.result[n] IN
      r.name = "Unknown"
        => /\ r.confidence = CallDetected[DetectionOf(r)].confidence
           /\ r.face_id = None

\* C3, amended: every entry without a matched gallery entry (face_id None) is
\* named 'Unknown' and carries the detector's confidence for its face; an
\* entry named 'Unknown' with a face_id is a match of a gallery entry that is
\* itself named 'Unknown', and carries that entry's similarity and id.
C3_UnknownConfidence ==
  IsRecognize =>
    \A n \in 1..Len(call.result) :
      LET r == call.result[n]
          i == DetectionOf(r)
      IN /\ r.face_id = None
              => /\ r.name = "Unknown"
                 /\ r.confidence = CallDetected[i].confidence
         /\ (r.name = "Unknown" /\ r.face_id # None)
              => \E k \in Comparable(i) :
                   /\ call.known_faces[k].name = Some("Unknown")
                   /\ r.face_id = FaceIdOf(call.known_faces[k])
                   /\ r.confidence = CallSimilarity(i, k)
                   /\ r.confidence > CallThreshold

\* an unmatched face was reported although the gallery held an entry whose
\* similarity to it differs from the detector's confidence
C3_Witness ==
  /\ IsRecognize
  /\ \E n \in 1..Len(call.result) :
       LET r == call.result[n]
           i == DetectionOf(r)
       IN /\ r.name = "Unknown" /\ r.face_id = None
          /\ r.confidence = CallDetected[i].confidence
          /\ \E k \in Comparable(i) : 0 < CallSimilarity(i, k)
                                      /\ CallSimilarity(i, k) # r.confidence

\* the Matcher raises for detection i: the entry the scan selects has no 'name'
MatcherFails(i) ==
  LET scan == ScanKnownFaces(CallEmbedding(i), call.known_faces, CallThreshold, 1, 0, 0)
  IN scan.best_match # 0 /\ call.known_faces[scan.best_match].name = None

\* C4: a face for which neither the Embedder nor the Matcher fails is part of
\* the result, whatever happens to the other faces of the frame.
C4_PerFaceIsolation ==
  IsRecognize =>
    \A i \in 1..Len(CallDetected) :
      (CallEmbedding(i) # None /\ ~MatcherFails(i)) => ResultsOf(i) # {}

\* positions of the result in the detector's order
ResultPositions == [n \in 1..Len(call.result) |-> DetectionOf(call.result[n])]

\* C5: the result holds at most one entry per detection, every entry belongs
\* to a detection of the frame, and the entries are in the order the detector
\* emitted their detections; a frame whose results are returned holds exactly
\* the faces with an embedding.
C5_OrderPreserved ==
  IsRecognize =>
    /\ Len(call.result) <= Len(CallDetected)
    /\ \A n \in 1..Len(call.result) :
         \E i \in 1..Len(CallDetected) :
           /\ CallDetected[i].bbox = call.result[n].bounding_box
           /\ call.result[n].face_id = None
                => call.result[n].confidence = CallDetected[i].confidence
    /\ \A n, m \in 1..Len(call.result) :
         n < m => ResultPositions[n] < ResultPositions[m]
    /\ ~call.caught =>
         \A i \in 1..Len(CallDetected) : (ResultsOf(i) # {}) <=> (CallEmbedding(i) # None)

\* three detections, the middle one failed in the Embedder, and the two
\* survivors are returned in detector order although the later one has the
\* higher confidence
C5_Witness ==
  /\ IsRecognize
  /\ Len(CallDetected) = 3
  /\ CallEmbedding(2) = None
  /\ Len(call.result) = 2
  /\ call.result[1].bounding_box = CallDetected[1].bbox
  /\ call.result[2].bounding_box = CallDetected[3].bbox
  /\ CallDetected[1].confidence < CallDetected[3].confidence

(***************************************************************************)
(* Properties of detect_faces and extract_face_embedding                   *)
(***************************************************************************)
\* C8: detect_faces on an image the detector cannot process signals an error
\* instead of returning an empty list.
C8_MalformedImageSignalled ==
  (call # Idle /\ call.op = "detect_faces" /\ call.image.malformed) => call.raised

\* C9: a repeated extract_face_embedding call with the same image and box
\* returns the vector the first call returned, in every engine state.
C9_EmbedderDeterministic ==
  (call # Idle /\ call.op = "extract_face_embedding" /\ call.previous # None)
    => call.result = call.previous[1]

\* the box has no area or does not overlap the image at all
EmptyOrOutside(bbox, size) ==
  \/ bbox[3] <= bbox[1] \/ bbox[4] <= bbox[2]
  \/ bbox[3] <= 0 \/ bbox[4] <= 0
  \/ bbox[1] >= size \/ bbox[2] >= size

\* C10: extract_face_embedding returns None for every box without area or
\* outside the image, boxes with negative coordinates included.
C10_EmptyCropIsNone ==
  (call # Idle /\ call.op = "extract_face_embedding"
     /\ EmptyOrOutside(call.bbox, call.image.size))
    => call.result = None
(***************************************************************************)
(* Properties of the POST handlers                                         *)
(***************************************************************************)
\* C6: POST /faces with an image in which no face is detected ends in an
\* error and leaves the gallery, in memory and in MongoDB, unchanged.
C6_EnrollNeedsAFace ==
  (call # Idle /\ call.op = "POST /faces"
     /\ call.upload.decodable /\ call.faces_in_image = 0)
    => /\ call.status_code >= 400
       /\ faces_storage = call.faces_storage_before
       /\ db_faces = call.db_faces_before

\* C7: when POST /recognize cannot perform recognition (the image does not
\* decode, or the recognition utilities are unavailable) the caller gets an
\* explicit failure, never a simulated result.
C7_FailureIsExplicit ==
  (call # Idle /\ call.op = "POST /recognize"
     /\ (~face_recognition_available \/ ~call.upload.decodable))
    => (call.status_code >= 400 /\ ~call.simulated)

(***************************************************************************)
(* Properties of the scan over the gallery                                 *)
(***************************************************************************)
\* C13: with an empty gallery every face that reaches the Matcher is
\* reported, and every reported face is 'Unknown' without a face_id, at
\* every threshold.
C13_EmptyGalleryUnknown ==
  (IsRecognize /\ call.known_faces = <<>>) =>
    /\ ~call.caught
    /\ \A i \in 1..Len(CallDetected) : CallEmbedding(i) # None => ResultsOf(i) # {}
    /\ \A n \in 1..Len(call.result) :
         call.result[n].name = "Unknown" /\ call.result[n].face_id = None

\* two faces were matched against an empty gallery at a negative threshold
C13_Witness ==
  /\ IsRecognize
  /\ call.known_faces = <<>>
  /\ CallThreshold < 0
  /\ Len(call.result) = 2
  /\ \A n \in 1..2 : call.result[n].name = "Unknown"

\* the best similarity of detection i over the gallery is exactly x
BestIs(i, x) == \E k \in Comparable(i) : IsBest(i, k) /\ CallSimilarity(i, k) = x

\* C14: a face with similarity 1.0 to a gallery entry is matched at every
\* threshold below 1.0, and a face whose best similarity is 0 is not matched
\* at any threshold of 0 or more.
C14_ThresholdBoundary ==
  IsRecognize =>
    \A i \in 1..Len(CallDetected) :
      CallEmbedding(i) # None =>
        /\ (BestIs(i, 100) /\ CallThreshold < 100)
             => \E n \in ResultsOf(i) : call.result[n].face_id # None
        /\ (BestIs(i, 0) /\ CallThreshold >= 0)
             => \A n \in ResultsOf(i) :
                  call.result[n].face_id = None /\ call.result[n].name = "Unknown"

\* C15: a matched face is reported with a gallery entry of the highest
\* similarity over the whole gallery, and with that similarity.
C15_BestEntryReturned ==
  IsRecognize =>
    \A n \in 1..Len(call.result) :
      LET r == call.result[n]
          i == DetectionOf(r)
      IN r.face_id # None
           => \E k \in Comparable(i) :
                /\ IsBest(i, k)
                /\ r.face_id = FaceIdOf(call.known_faces[k])
                /\ call.known_faces[k].name = Some(r.name)
                /\ r.confidence = CallSimilarity(i, k)

\* a face was matched to the first entry of a gallery whose second entry is
\* also above the threshold but less similar
C15_Witness ==
  /\ IsRecognize
  /\ Len(call.known_faces) = 2
  /\ \E n \in 1..Len(call.result) :
       LET r == call.result[n]
           i == DetectionOf(r)
       IN /\ r.face_id = FaceIdOf(call.known_faces[1])
          /\ Comparable(i) = {1, 2}
          /\ CallSimilarity(i, 2) > CallThreshold
          /\ CallSimilarity(i, 2) > 0
          /\ CallSimilarity(i, 2) < CallSimilarity(i, 1)

\* gallery entry e has an embedding of another dimension than some face of
\* the recorded call
Mismatched(e) ==
  /\ HasEmbedding(e)
  /\ \E i \in 1..Len(CallDetected) :
       CallEmbedding(i) # None /\ Len(e.embedding[1]) # Len(CallEmbedding(i)[1])

\* the gallery of the recorded call without its mismatched entries
WithoutMismatched == SelectSeq(call.known_faces, LAMBDA e : ~Mismatched(e))

\* C16: a gallery entry whose embedding dimension differs from the query's
\* is never returned as the match, and the call returns what it returns for
\* the gallery without that entry: the other entries are still compared.
C16_MismatchSkipped ==
  IsRecognize =>
    /\ \A n \in 1..Len(call.result) :
         call.result[n].face_id # None
           => \E k \in Comparable(DetectionOf(call.result[n])) :
                call.result[n].face_id = FaceIdOf(call.known_faces[k])
    /\ LET other == RecognizeFaces(detector, facenet_model, threshold, call.image,
                                   WithoutMismatched, call.threshold, call.rnd)
       IN call.result = other.value /\ call.caught = other.caught

\* a face was matched to the entry that follows a mismatched entry
C16_Witness ==
  /\ IsRecognize
  /\ ~call.caught
  /\ Len(call.known_faces) = 2
  /\ Mismatched(call.known_faces[1])
  /\ \E n \in 1..Len(call.result) :
       call.result[n].face_id = FaceIdOf(call.known_faces[2])

(***************************************************************************)
(* Properties of the detector's confidence floor                           *)
(***************************************************************************)
\* C20: detect_faces returns no face with a confidence below the floor of
\* 0.9, with the MTCNN detector and with the Haar cascade; with MTCNN every
\* returned face is a candidate of the detector with its own score, and the
\* candidates scored below the floor are not among them.
C20_ConfidenceFloor ==
  (call # Idle /\ call.op = "detect_faces") =>
    /\ \A n \in 1..Len(call.result) : call.result[n].confidence >= ConfidenceFloor
    /\ detector # "None" =>
         /\ \A n \in 1..Len(call.result) :
              \E j \in 1..Len(call.image.raw) :
                LET d == call.image.raw[j]
                IN /\ call.result[n] = MkFace(d.box[1], d.box[2], d.box[3], d.box[4],
                                              d.confidence)
                   /\ d.confidence >= ConfidenceFloor
         /\ \A j \in 1..Len(call.image.raw) :
              call.image.raw[j].confidence < ConfidenceFloor
                => LET d == call.image.raw[j]
                   IN \A n \in 1..Len(call.result) :
                        call.result[n].bbox
                          # MkFace(d.box[1], d.box[2], d.box[3], d.box[4], d.confidence).bbox

\* MTCNN reported a candidate below the floor between two candidates above
\* it, and detect_faces returned the two
C20_Witness ==
  /\ call # Idle /\ call.op = "detect_faces"
  /\ detector # "None"
  /\ Len(call.image.raw) = 3
  /\ call.image.raw[2].confidence < ConfidenceFloor
  /\ Len(call.result) = 2

(***************************************************************************)
(* Frame of recognize_faces                                                *)
(***************************************************************************)
\* C17: a recognize_faces call leaves the engine's threshold, detector and
\* model fields as they were, and leaves the gallery list and its entries as
\* they were passed, whatever the outcome of the call.
C17_NoHiddenEffects ==
  [][(call'.op = "recognize_faces" /\ call.op # "recognize_faces")
       => /\ threshold' = threshold
          /\ detector' = detector
          /\ facenet_model' = facenet_model
          /\ call'.known_faces_after = call'.known_faces]_vars

\* a call with an explicit threshold other than self.threshold returned a
\* match and an 'Unknown' and skipped a third face
C17_Witness ==
  /\ IsRecognize
  /\ call.threshold # None /\ call.threshold # Some(threshold)
  /\ call.known_faces # <<>>
  /\ Len(CallDetected) = 3
  /\ \E n, m \in 1..Len(call.result) :
       call.result[n].face_id # None /\ call.result[m].face_id = None
  /\ \E i \in 1..3 : CallEmbedding(i) = None

(***************************************************************************)
(* Properties of the health report                                         *)
(***************************************************************************)
\* C19: when the engine was constructed without the FaceNet model (the
\* fallback network or no network at all is in its place), GET /health does
\* not report real models as available.
C19_DegradedIsReported ==
  (call # Idle /\ call.op = "GET /health" /\ facenet_model # "facenet")
    => call.body.models # "real_ml_models"

(***************************************************************************)
(* Properties of the classifier strategy                                   *)
(***************************************************************************)
ModelsLoaded == svm_model # "None" /\ label_encoder # "None"

\* C11: while the classifier or the label encoder is not loaded,
\* recognize_face returns the 'models not loaded' outcome and the endpoint
\* answers 200 with that outcome for every face of the image.
C11_ModelsNotLoadedReported ==
  ~ModelsLoaded =>
    /\ (call # Idle /\ call.op = "recognize_face")
         => call.result = <<"Unknown (Models not loaded)">>
    /\ (call # Idle /\ call.op = "flask POST /recognize"
          /\ call.has_file /\ call.decodable)
         => /\ call.response.status_code = 200
            /\ Len(call.response.recognized_faces) = Len(call.image)
            /\ \A n \in 1..Len(call.response.recognized_faces) :
                 call.response.recognized_faces[n].name = <<"Unknown (Models not loaded)">>

\* C12: with both models loaded, the class of maximum probability decides:
\* the outcome is 'Unknown' exactly when that probability is below the
\* threshold, otherwise the identity of that class, and in both cases the
\* outcome reports that probability as its confidence.
C12_ClassifierDecision ==
  ModelsLoaded =>
    /\ (call # Idle /\ call.op = "recognize_face" /\ call.image # <<>>)
         => LET prediction == LargestFace(call.image).prediction
                best == ArgMax(prediction)
            IN /\ (call.result[1] = "Unknown") <=> (prediction[best] < call.threshold)
               /\ prediction[best] >= call.threshold => call.result[1] = Labels[best]
               /\ Len(call.result) = 2 /\ call.result[2] = prediction[best]
    /\ (call # Idle /\ call.op = "flask POST /recognize"
          /\ call.has_file /\ call.decodable)
         => /\ Len(call.response.recognized_faces) = Len(call.image)
            /\ \A n \in 1..Len(call.response.recognized_faces) :
                 LET r == call.response.recognized_faces[n]
                     prediction == call.image[n].prediction
                     best == ArgMax(prediction)
                 IN /\ (r.name[1] = "Unknown") <=> (prediction[best] < ClassifierThreshold)
                    /\ prediction[best] >= ClassifierThreshold => r.name[1] = Labels[best]
                    /\ r.confidence = prediction[best]

(***************************************************************************)
(* Properties of the concurrent handlers                                   *)
(***************************************************************************)
\* C18: when a POST /recognize handler hands faces_storage itself to
\* recognize_faces, the list is at the return of the call what it was at its
\* start: no enrollment and no deletion takes effect in between, however the
\* handlers in flight interleave.
C18_GalleryStableDuringCall ==
  (call # Idle /\ call.op = "recognize_faces in POST /recognize" /\ call.by_reference)
    => call.gallery_at_return = call.gallery_at_start

\* a recognize_faces call on faces_storage returned while an enrollment or a
\* deletion was in flight, after the gallery had changed since startup
C18_Witness ==
  /\ call # Idle /\ call.op = "recognize_faces in POST /recognize"
  /\ call.by_reference
  /\ call.gallery_at_start # SampleFaces
  /\ InFlight({"faces", "delete"}) # {}

(***************************************************************************)
(* Further properties of the engine                                        *)
(***************************************************************************)
\* the detector finds no face in the image: it reports no candidate, or (with
\* MTCNN) no candidate above the confidence floor
NoFaceFound(image) ==
  \/ image.raw = <<>>
  \/ detector # "None" /\ \A j \in 1..Len(image.raw) : image.raw[j].confidence <= ConfidenceFloor

\* C21: for a well-formed image in which no face is detected, detect_faces
\* returns the empty list without raising and recognize_faces returns the
\* empty list without an error.
C21_NoFaceIsEmpty ==
  /\ (call # Idle /\ call.op = "detect_faces"
        /\ ~call.image.malformed /\ NoFaceFound(call.image))
       => (call.result = <<>> /\ ~call.raised)
  /\ (IsRecognize /\ ~call.image.malformed /\ NoFaceFound(call.image))
       => (call.result = <<>> /\ ~call.caught
           /\ ~DetectFaces(detector, call.image).raised)

\* recognize_faces returned the empty list for an image whose only
\* candidate is below the floor, with a gallery at hand
C21_Witness ==
  /\ IsRecognize
  /\ ~call.image.malformed
  /\ call.image.raw # <<>>
  /\ NoFaceFound(call.image)
  /\ call.known_faces # <<>>
  /\ call.result = <<>>

C29_FirstOfTiesReturned ==
  IsRecognize =>
    \A n \in 1..Len(call.result) :
      LET r == call.result[n]
          i == DetectionOf(r)
          sim == [k \in Comparable(i) |-> CallSimilarity(i, k)]
      IN r.face_id # None
           => \E k \in DOMAIN sim :
                /\ \A j \in DOMAIN sim : sim[j] <= sim[k]
                /\ \A j \in DOMAIN sim : j < k => sim[j] < sim[k]
                /\ r.face_id = FaceIdOf(call.known_faces[k])
                /\ call.known_faces[k].name = Some(r.name)

\* two entries tie for the highest similarity and the face carries the id of
\* the first
C29_Witness ==
  /\ IsRecognize
  /\ Len(call.known_faces) = 2
  /\ \E n \in 1..Len(call.result) :
       LET i == DetectionOf(call.result[n])
       IN /\ IsBest(i, 1) /\ IsBest(i, 2)
          /\ call.result[n].face_id = FaceIdOf(call.known_faces[1])
          /\ call.result[n].face_id # FaceIdOf(call.known_faces[2])

(***************************************************************************)
(* Properties of the FastAPI handlers' storage                             *)
(***************************************************************************)
\* C23: a POST /recognize that returns a result appends exactly one log
\* entry, to exactly one of db.logs and logs_storage, carrying the name and
\* confidence of the first face of the returned list (None, None when the
\* list is empty), and leaves the gallery (faces_storage and db.faces) as it
\* was.
C23_OneLogPerRecognition ==
  [][(call = Idle /\ call' # Idle /\ call'.op = "POST /recognize"
        /\ call'.status_code = 200)
       => LET returned == call'.recognized_faces
              person == IF returned = <<>> THEN None ELSE Some(returned[1].name)
              conf == IF returned = <<>> THEN None ELSE Some(returned[1].confidence)
              Logged(before, after) ==
                /\ Len(after) = Len(before) + 1
                /\ SubSeq(after, 1, Len(before)) = before
                /\ after[Len(after)].recognized_person = person
                /\ after[Len(after)].confidence = conf
          IN /\ \/ Logged(db_logs, db_logs') /\ logs_storage' = logs_storage
                \/ Logged(logs_storage, logs_storage') /\ db_logs' = db_logs
             /\ faces_storage' = faces_storage
             /\ db_faces' = db_faces]_vars

\* a real recognition returned two faces that differ and the log in MongoDB
\* ends with the first one's name and confidence
C23_Witness ==
  /\ call # Idle /\ call.op = "POST /recognize"
  /\ ~call.simulated
  /\ call.status_code = 200
  /\ Len(call.recognized_faces) = 2
  /\ call.recognized_faces[1].name # call.recognized_faces[2].name
  /\ db_logs # <<>>
  /\ db_logs[Len(db_logs)].recognized_person = Some(call.recognized_faces[1].name)
  /\ db_logs[Len(db_logs)].confidence = Some(call.recognized_faces[1].confidence)

\* the stores are as init_sample_data() and the empty database leave them
Fresh == faces_storage = SampleFaces /\ db_faces = <<>>

\* C24: on a freshly started server, before any POST /faces, GET /faces
\* returns the empty list and POST /recognize runs against an empty gallery.
C24_FreshGalleryEmpty ==
  /\ (call # Idle /\ call.op = "GET /faces" /\ Fresh) => call.body = <<>>
  /\ (call # Idle /\ call.op = "POST /recognize" /\ Fresh /\ call.known_faces # None)
       => call.known_faces[1] = <<>>

\* ids (id or _id) of the entries of a list of faces
IdsOf(faces) ==
  { faces[k].id : k \in 1..Len(faces) } \cup { faces[k]._id : k \in 1..Len(faces) }

\* ids of the enrolled faces that are stored and not deleted
EnrolledIds ==
  ({ faces_storage[k].id : k \in 1..Len(faces_storage) } \ SampleIds)
    \cup { db_faces[k]._id : k \in 1..Len(db_faces) }

C26_DeleteUnknownIs404 ==
  (call # Idle /\ call.op = "DELETE /faces") =>
    LET before == call.faces_storage_before \o call.db_faces_before
        matched == Some(call.face_id) \in IdsOf(before)
    IN /\ ~matched => (call.status_code = 404 /\ faces_storage = call.faces_storage_before)
       /\ call.status_code = 200
            => (matched /\ Len(faces_storage) + Len(db_faces) < Len(before))

(***************************************************************************)
(* Properties of the webcam loop of gui.py                                 *)
(***************************************************************************)
\* C27: self.cap holds a capture (it is not None and was not released) only
\* while is_webcam_running is true, and whenever the webcam is not running
\* no capture device is open.
C27_HandleOnlyWhileRunning ==
  /\ cap # "None" => is_webcam_running
  /\ ~is_webcam_running => open_captures = 0

\* C28: at most one update_webcam_frame callback is pending at any time,
\* whatever the order of button presses and timer firings.
C28_OneCallbackPending ==
  pending <= 1

(***************************************************************************)
(* Properties of the collection and training scripts                       *)
(***************************************************************************)
\* C30: the label train_model derives from a saved file's name is the person
\* name entered in collect_faces for that file, so files of persons with
\* distinct names get distinct labels.
C30_NameRoundTrip ==
  (call # Idle /\ call.op = "train_model") =>
    /\ \A r \in call.y : r.name = r.face_of
    /\ \A r1, r2 \in call.y : r1.face_of # r2.face_of => r1.name # r2.name
====
